---- MODULE Spec2Model ----
(***************************************************************************)
(* Model of script.py: the Chomikuj path decoder (chomikuj_path_to_utf),   *)
(* the downloader processes (ChomikujMp3Downloader.run / do) and the       *)
(* directory crawler (ChomikujDirectory.download) sharing one              *)
(* multiprocessing.JoinableQueue.                                          *)
(*                                                                         *)
(* Characters are their code points (ord(c)); strings are sequences of     *)
(* code points.                                                            *)
(***************************************************************************)
EXTENDS Integers, Sequences, FiniteSets, TLC

\* ------------------------------------------------------------------------
\* Bounds of the model
\* ------------------------------------------------------------------------

\* longest encoded path given to the decoder in SpecCodec
MaxLen == 3
\* most anchors of one kind (resource links, sub-directory links) on a page
MaxAnchors == 1
\* most anchors of one kind on a page in SpecCrawl and SpecWalk
MaxFolders == 2
\* longest response body in SpecDo
MaxBody == 2

\* ------------------------------------------------------------------------
\* Characters
\* ------------------------------------------------------------------------

\* '+'
ChPlus == 43
\* ':'
ChColon == 58
\* '?'
ChQuestion == 63
\* '*'
ChStar == 42
\* ' '
ChSpace == 32
\* '-'
ChMinus == 45
\* '_'
ChUnderscore == 95

\* "0123456789abcdef", the digits '%x' prints
HexDigits == <<48, 49, 50, 51, 52, 53, 54, 55, 56, 57, 97, 98, 99, 100, 101, 102>>

\* ASCII whitespace, which bytes.fromhex skips between byte pairs
AsciiSpace == {9, 10, 11, 12, 13, 32}

\* value of a hexadecimal digit character accepted by bytes.fromhex, -1 if none
HexVal(c) ==
    IF c >= 48 /\ c <= 57 THEN c - 48
    ELSE IF c >= 97 /\ c <= 102 THEN c - 87
    ELSE IF c >= 65 /\ c <= 70 THEN c - 55
    ELSE -1

RECURSIVE ToHex(_)
\* '%x' % n for n >= 0: the hexadecimal digits of n, no padding
ToHex(n) ==
    IF n < 16 THEN <<HexDigits[n + 1]>>
    ELSE ToHex(n \div 16) \o <<HexDigits[(n % 16) + 1]>>

\* '%x' % n in the place of '%02x' % n
Format02x_NoPad(n) == ToHex(n)

\* '%02x' % n: zero padded to a width of at least two
Format02x(n) ==
    IF n < 16 THEN <<48>> \o ToHex(n) ELSE ToHex(n)

\* ------------------------------------------------------------------------
\* chomikuj_path_to_utf
\* ------------------------------------------------------------------------

\* the hex text one character other than '*' adds to out
EmitChar(c) ==
    IF c = ChPlus THEN Format02x(ChSpace)
    ELSE IF c = ChColon THEN Format02x(ChMinus)
    ELSE IF c = ChQuestion THEN Format02x(ChUnderscore)
    ELSE Format02x(c)

\* path[a:b] of Python, with 0-based a <= b, clipped to the string
Slice(s, a, b) ==
    SubSeq(s, a + 1, IF b < Len(s) THEN b ELSE Len(s))

RECURSIVE HexOut(_, _)
\* the while loop: the text added to out from 0-based position cnum on
HexOut(path, cnum) ==
    IF cnum >= Len(path) THEN <<>>
    ELSE IF path[cnum + 1] = ChStar
         THEN Slice(path, cnum + 1, cnum + 3) \o HexOut(path, cnum + 3)
         ELSE EmitChar(path[cnum + 1]) \o HexOut(path, cnum + 1)

RECURSIVE FromHexAt(_, _, _)
\* bytes.fromhex from 1-based position i on, acc being the bytes read so
\* far: whitespace is skipped before each pair, and then two hexadecimal
\* digits must follow
FromHexAt(s, i, acc) ==
    IF i > Len(s) THEN [err |-> "none", val |-> acc]
    ELSE IF s[i] \in AsciiSpace THEN FromHexAt(s, i + 1, acc)
    ELSE IF i + 1 > Len(s) \/ HexVal(s[i]) < 0 \/ HexVal(s[i + 1]) < 0
         THEN [err |-> "ValueError", val |-> <<>>]
         ELSE FromHexAt(s, i + 2,
                        Append(acc, 16 * HexVal(s[i]) + HexVal(s[i + 1])))

FromHex(s) == FromHexAt(s, 1, <<>>)

\* a UTF-8 continuation byte
IsCont(b) == b >= 128 /\ b <= 191

RECURSIVE Utf8At(_, _, _)
\* bytes.decode('utf-8') (strict) from 1-based position i on, acc being the
\* code points decoded so far
Utf8At(b, i, acc) ==
    LET n == Len(b)
        bad == [err |-> "UnicodeDecodeError", val |-> <<>>]
    IN
    IF i > n THEN [err |-> "none", val |-> acc]
    ELSE LET b0 == b[i] IN
      IF b0 < 128 THEN Utf8At(b, i + 1, Append(acc, b0))
      ELSE IF b0 >= 194 /\ b0 <= 223
        THEN IF i + 1 <= n /\ IsCont(b[i + 1])
             THEN Utf8At(b, i + 2,
                         Append(acc, (b0 - 192) * 64 + (b[i + 1] - 128)))
             ELSE bad
      ELSE IF b0 >= 224 /\ b0 <= 239
        THEN IF /\ i + 2 <= n
                /\ IsCont(b[i + 1]) /\ IsCont(b[i + 2])
                /\ (b0 = 224 => b[i + 1] >= 160)
                /\ (b0 = 237 => b[i + 1] <= 159)
             THEN Utf8At(b, i + 3,
                         Append(acc, (b0 - 224) * 4096 + (b[i + 1] - 128) * 64
                                     + (b[i + 2] - 128)))
             ELSE bad
      ELSE IF b0 >= 240 /\ b0 <= 244
        THEN IF /\ i + 3 <= n
                /\ IsCont(b[i + 1]) /\ IsCont(b[i + 2]) /\ IsCont(b[i + 3])
                /\ (b0 = 240 => b[i + 1] >= 144)
                /\ (b0 = 244 => b[i + 1] <= 143)
             THEN Utf8At(b, i + 4,
                         Append(acc, (b0 - 240) * 262144
                                     + (b[i + 1] - 128) * 4096
                                     + (b[i + 2] - 128) * 64 + (b[i + 3] - 128)))
             ELSE bad
      ELSE bad

Utf8Decode(b) == Utf8At(b, 1, <<>>)

\* line 29, .decode('utf-8'): of the bytes, unless fromhex raised
DecodeRaw(raw) == IF raw.err # "none" THEN raw ELSE Utf8Decode(raw.val)

\* line 29: bytes.fromhex(out).decode('utf-8'). (The bytes are bound as a
\* value, raw, before they are decoded.)
DecodeOut(out) == CHOOSE r \in {DecodeRaw(raw) : raw \in {FromHex(out)}} : TRUE

\* the decoder: the string it returns (err = "none") or the exception it raises
chomikuj_path_to_utf(path) ==
    CHOOSE r \in {DecodeOut(out) : out \in {HexOut(path, 0)}} : TRUE

\* ------------------------------------------------------------------------
\* ChomikujMp3Downloader.do: the part that decides whether it raises
\* ------------------------------------------------------------------------

\* "(audio)"
AudioMark == <<40, 97, 117, 100, 105, 111, 41>>

\* '/'
ChSlash == 47
\* ','
ChComma == 44
\* '.'
ChDot == 46

RECURSIVE LastIdx(_, _, _)
\* the last 1-based position <= hi of s that holds c, 0 if there is none
LastIdx(s, c, hi) ==
    IF hi < 1 THEN 0
    ELSE IF s[hi] = c THEN hi
    ELSE LastIdx(s, c, hi - 1)

\* s ends with the text suf
EndsWith(s, suf) ==
    /\ Len(s) >= Len(suf)
    /\ SubSeq(s, Len(s) - Len(suf) + 1, Len(s)) = suf

\* re.match(r"^.*/(?P<name>.+),(?P<id>.+)\.(?P<ext>.+)\(audio\)$", s), for s
\* without line breaks. With L the length of s before "(audio)", a match
\* needs a '/' at p, a ',' at q >= p + 2 and a '.' at r >= q + 2, r < L.
\* The greedy search takes the greatest p that can be completed, then the
\* greatest q, then the greatest r: the last '.' before L, the last ','
\* two or more before it, the last '/' two or more before that
AudioMatch(s) ==
    LET L == Len(s) - Len(AudioMark)
        r == LastIdx(s, ChDot, L - 1)
        q == LastIdx(s, ChComma, r - 2)
        p == LastIdx(s, ChSlash, q - 2)
    IN
    IF ~EndsWith(s, AudioMark) \/ p = 0
    THEN [ok |-> FALSE, name |-> <<>>, id |-> <<>>, ext |-> <<>>]
    ELSE [ok |-> TRUE,
          name |-> SubSeq(s, p + 1, q - 1),
          id |-> SubSeq(s, q + 1, r - 1),
          ext |-> SubSeq(s, r + 1, L)]

\* the url_type the crawler gives every task
ChomikujAudio == "chomikuj_audio"

\* do(d) up to the first directory or network operation: "skip" when it
\* returns at once (other url_type, or no match), "raise" when one of the two
\* chomikuj_path_to_utf calls raises (nothing in do catches it), "io" when it
\* goes on to makedirs and the transfer
DoDecodeMatched(d, m) ==
    LET full_url == d[1]
        url_base == d[3]
    IN
    IF ~m.ok THEN "skip"
    ELSE IF chomikuj_path_to_utf(m.name).err # "none" THEN "raise"
    ELSE IF chomikuj_path_to_utf(Slice(full_url, Len(url_base), Len(full_url))).err
                # "none" THEN "raise"
    ELSE "io"

DoDecode(d) ==
    IF d[4] # ChomikujAudio THEN "skip"
    ELSE CHOOSE r \in {DoDecodeMatched(d, m) : m \in {AudioMatch(d[1])}} : TRUE

\* ------------------------------------------------------------------------
\* The remote service, as the crawler sees it
\* ------------------------------------------------------------------------

\* 'http://chomikuj.pl', prepended to every href
Prefix == <<104, 116, 116, 112, 58, 47, 47, 99, 104, 111, 109, 105, 107, 117,
            106, 46, 112, 108>>

\* hrefs of the directories of the service: "/A" and "/B"
DirHrefs == {<<ChSlash, 65>>, <<ChSlash, 66>>}

\* "/A/x+y,1.m(audio)": matches, and both decodings succeed
HrefGood == <<47, 65, 47, 120, 43, 121, 44, 49, 46, 109>> \o AudioMark
\* "/A/*z,2.m(audio)": matches, the name "*z" is no hexadecimal text
HrefBadName == <<47, 65, 47, 42, 122, 44, 50, 46, 109>> \o AudioMark
\* "/A/x(audio)": ends with the audio marker but has no name,id.ext
HrefNoMatch == <<47, 65, 47, 120>> \o AudioMark

\* hrefs of anchors matching r"^.*\(audio\)$"
ResHrefs == {HrefGood, HrefBadName, HrefNoMatch}

\* sequences of at most MaxAnchors elements of S
AnchorSeqs(S) == UNION {[1..n -> S] : n \in 0..MaxAnchors}

\* dir_link.get('href') of an anchor of div#foldersList that has no href
\* attribute: None (an anchor with an empty href text is not drawn)
NoHref == <<>>

\* what dir_link.get('href') gives for the anchors of div#foldersList
FolderHrefs == DirHrefs \cup {NoHref}

\* what one fetched and parsed page holds inside div#folderContent: the
\* hrefs of its audio anchors and of the anchors of div#foldersList
Pages == [audio : AnchorSeqs(ResHrefs), dirs : AnchorSeqs(FolderHrefs)]

\* sys.argv[-1], the URL the crawl starts from: 'http://chomikuj.pl/A'
StartUrl == Prefix \o <<ChSlash, 65>>

\* '.', the local mirror root main() passes
LocalRoot == <<ChDot>>

\* the exit signal put on the queue
None == <<>>

\* ------------------------------------------------------------------------
\* State
\* ------------------------------------------------------------------------

\* self.downloaders_n
downloaders_n == 4

Workers == 1..downloaders_n

VARIABLES
    path,             \* SpecCodec: the argument of chomikuj_path_to_utf
    result,           \* SpecCodec: what the call returned or raised
    download_manager, \* self.download_manager (files_queue is None)
    cpc,              \* where download() is: "start", "loop", "except", "links",
                      \* "signal", "done", or "raised" when an exception ended it
    urls_todo,        \* the frontier
    urls_visited,
    urls_downloaded,
    links,            \* audio hrefs of the current page not yet looked at
    subdirs,          \* folder hrefs of the current page
    signalled,        \* iterations done of the loop putting None
    fq,               \* items in the queue, oldest first
    unfinished,       \* the queue's count of items put and not yet task_done
    wpc,              \* per downloader: "new", "get", "do", "ack", "stopped", "crashed"
    item,             \* per downloader: d, the item it holds
    errlog,           \* history: <<downloader, d>> of every "Error during download"
    put_log,          \* history: every item put, in order
    npop,             \* history: number of fq.get() that returned
    nack,             \* history: number of fq.task_done() calls
    handed,           \* history: per task, how many times do() was called on it
    page_dirs,        \* SpecCrawl, history: per fetch, in order, the folder hrefs
                      \* its page gave (none when the fetch failed)
    call,             \* SpecDo: the arguments of do() and what its environment does
    effects           \* SpecDo: what the call of do() did

codec_vars == <<path, result>>
do_vars == <<call, effects>>
unit_vars == <<path, result, call, effects>>
crawl_vars == <<cpc, urls_todo, urls_visited, urls_downloaded, links, subdirs,
                signalled, page_dirs>>
queue_vars == <<fq, unfinished, put_log, npop, nack>>
worker_vars == <<wpc, item, errlog, handed>>
vars == <<path, result, download_manager, cpc, urls_todo, urls_visited,
          urls_downloaded, links, subdirs, signalled, fq, unfinished, wpc,
          item, errlog, put_log, npop, nack, handed, page_dirs, call, effects>>

Unset == [err |-> "unset", val |-> <<>>]

\* SpecDo has not chosen the call of do() / has not run it
NoCall == [d |-> <<>>]
NoEffects == [ended |-> "unset"]

\* line 135: the task made for a resource URL
TaskOf(full_href) == <<full_href, LocalRoot, StartUrl, ChomikujAudio>>

\* the tasks the crawler can make from the resource hrefs of the service
AllTasks == {TaskOf(Prefix \o h) : h \in ResHrefs}

\* s holds x (x in list)
InSeq(x, s) == \E i \in 1..Len(s) : s[i] = x

\* ChomikujDirectory.__init__ and the first lines of download()
InitPipeline ==
    /\ download_manager \in BOOLEAN
    /\ cpc = "start"
    /\ urls_todo = <<StartUrl>>
    /\ urls_visited = <<>>
    /\ urls_downloaded = <<>>
    /\ links = <<>>
    /\ subdirs = <<>>
    /\ signalled = 0
    /\ fq = <<>>
    /\ unfinished = 0
    /\ wpc = [w \in Workers |-> "new"]
    /\ item = [w \in Workers |-> None]
    /\ errlog = <<>>
    /\ put_log = <<>>
    /\ npop = 0
    /\ nack = 0
    /\ handed = [t \in AllTasks |-> 0]
    /\ page_dirs = <<>>

Init ==
    /\ path = <<>>
    /\ result = Unset
    /\ call = NoCall
    /\ effects = NoEffects
    /\ InitPipeline

\* ------------------------------------------------------------------------
\* ChomikujDirectory.download
\* ------------------------------------------------------------------------

\* the items of the queue once x was put: it is first in, first out
Enqueue_Front(q, x) == <<x>> \o q

Enqueue(q, x) == Append(q, x)

\* fq.put(x) on a JoinableQueue
QueuePut(x) ==
    /\ fq' = Enqueue(fq, x)
    /\ unfinished' = unfinished + 1
    /\ put_log' = Append(put_log, x)
    /\ UNCHANGED <<npop, nack>>

\* lines 111-113: where a downloader is once d.start() was called on it
Started_Not == "new"

Started == "get"

\* lines 110 and 145: if self.download_manager
Manages_Always(dm) == TRUE

Manages(dm) == dm

\* lines 110-113: the downloaders are created and started
StartDownloaders ==
    /\ cpc = "start"
    /\ cpc' = "loop"
    /\ wpc' = IF Manages(download_manager) THEN [w \in Workers |-> Started] ELSE wpc
    /\ UNCHANGED <<download_manager, urls_todo, urls_visited, urls_downloaded,
                   links, subdirs, signalled, page_dirs, item, errlog, handed>>
    /\ UNCHANGED queue_vars
    /\ UNCHANGED unit_vars

\* line 117: is the popped URL skipped
AlreadyVisited(current, visited) == InSeq(current, visited)

\* lines 115-123: one turn of the while loop up to the parsed page. The page
\* is what the service answers now: an exception, or one of pages
Visit(pages) ==
    /\ cpc = "loop"
    /\ urls_todo # <<>>
    /\ LET current == Head(urls_todo) IN
       /\ urls_todo' = Tail(urls_todo)
       /\ IF AlreadyVisited(current, urls_visited)
          THEN UNCHANGED <<cpc, urls_visited, links, subdirs>>
          ELSE /\ urls_visited' = Append(urls_visited, current)
               /\ \/ /\ cpc' = "except"
                     /\ UNCHANGED <<links, subdirs>>
                  \/ \E page \in pages :
                        /\ links' = page.audio
                        /\ subdirs' = page.dirs
                        /\ cpc' = "links"
    /\ UNCHANGED <<download_manager, urls_downloaded, signalled>>
    /\ UNCHANGED queue_vars
    /\ UNCHANGED worker_vars
    /\ UNCHANGED unit_vars

VisitNext == Visit(Pages) /\ UNCHANGED page_dirs

\* line 126: where the handler of a failed fetch goes, continue
AfterFetchError_Abort == "signal"

AfterFetchError == "loop"

\* lines 124-126: the handler of a failed fetch or parse prints
\* "Error fetching URL" and goes on with the next turn of the loop
FetchError ==
    /\ cpc = "except"
    /\ cpc' = AfterFetchError
    /\ UNCHANGED <<download_manager, urls_todo, urls_visited, urls_downloaded,
                   links, subdirs, signalled, page_dirs>>
    /\ UNCHANGED queue_vars
    /\ UNCHANGED worker_vars
    /\ UNCHANGED unit_vars

\* line 132: is the link skipped
AlreadyDownloaded_Never(full_href, downloaded) == FALSE

AlreadyDownloaded(full_href, downloaded) == InSeq(full_href, downloaded)

\* lines 130-136: one audio anchor of the page
EnqueueLink ==
    /\ cpc = "links"
    /\ links # <<>>
    /\ LET full_href == Prefix \o Head(links) IN
       IF AlreadyDownloaded(full_href, urls_downloaded)
       THEN UNCHANGED <<urls_downloaded, fq, unfinished, put_log, npop, nack>>
       ELSE /\ urls_downloaded' = Append(urls_downloaded, full_href)
            /\ QueuePut(TaskOf(full_href))
    /\ links' = Tail(links)
    /\ UNCHANGED <<download_manager, cpc, urls_todo, urls_visited, subdirs,
                   signalled, page_dirs>>
    /\ UNCHANGED worker_vars
    /\ UNCHANGED unit_vars

\* line 142: urls_todo.append(href), for the hrefs of one page in order
ExtendFrontier_Front(todo, hrefs) == hrefs \o todo

ExtendFrontier(todo, hrefs) == todo \o hrefs

\* line 141: the position of the first folder anchor for which
\* 'http://chomikuj.pl' + dir_link.get('href') raises TypeError, the href
\* being None; 0 when every anchor has an href
FirstNoHref(hrefs) ==
    IF \E i \in 1..Len(hrefs) : hrefs[i] = NoHref
    THEN CHOOSE i \in 1..Len(hrefs) :
            hrefs[i] = NoHref /\ \A j \in 1..(i - 1) : hrefs[j] # NoHref
    ELSE 0

\* lines 139-142: the folder anchors join the end of the frontier, in order.
\* The TypeError of an anchor without href is raised outside any try: it
\* ends download(), with the hrefs before that anchor already appended
QueueSubdirs ==
    /\ cpc = "links"
    /\ links = <<>>
    /\ LET k == FirstNoHref(subdirs)
           n == IF k = 0 THEN Len(subdirs) ELSE k - 1
       IN /\ urls_todo' = ExtendFrontier(urls_todo,
                                [i \in 1..n |-> Prefix \o subdirs[i]])
          /\ cpc' = IF k = 0 THEN "loop" ELSE "raised"
    /\ subdirs' = <<>>
    /\ UNCHANGED <<download_manager, urls_visited, urls_downloaded, links,
                   signalled, page_dirs>>
    /\ UNCHANGED queue_vars
    /\ UNCHANGED worker_vars
    /\ UNCHANGED unit_vars

\* line 115 with an empty frontier: the loop ends
LoopExit ==
    /\ cpc = "loop"
    /\ urls_todo = <<>>
    /\ cpc' = "signal"
    /\ UNCHANGED <<download_manager, urls_todo, urls_visited, urls_downloaded,
                   links, subdirs, signalled, page_dirs>>
    /\ UNCHANGED queue_vars
    /\ UNCHANGED worker_vars
    /\ UNCHANGED unit_vars

\* line 146: how many times None is put, range(self.downloaders_n)
SignalCount == downloaders_n

\* lines 146-147: one fq.put(None)
Signal ==
    /\ cpc = "signal"
    /\ Manages(download_manager)
    /\ signalled < SignalCount
    /\ signalled' = signalled + 1
    /\ QueuePut(None)
    /\ UNCHANGED <<download_manager, cpc, urls_todo, urls_visited,
                   urls_downloaded, links, subdirs, page_dirs>>
    /\ UNCHANGED worker_vars
    /\ UNCHANGED unit_vars

\* download() waits in fq.join()
AtJoin == Manages(download_manager) /\ cpc = "signal" /\ signalled = SignalCount

\* JoinableQueue.join returns when no put item lacks its task_done
JoinReturns == unfinished = 0

\* lines 145-148: download() returns, after fq.join() when it owns the queue
Return ==
    /\ cpc = "signal"
    /\ Manages(download_manager) => (AtJoin /\ JoinReturns)
    /\ cpc' = "done"
    /\ UNCHANGED <<download_manager, urls_todo, urls_visited, urls_downloaded,
                   links, subdirs, signalled, page_dirs>>
    /\ UNCHANGED queue_vars
    /\ UNCHANGED worker_vars
    /\ UNCHANGED unit_vars

Crawler ==
    \/ StartDownloaders
    \/ VisitNext
    \/ FetchError
    \/ EnqueueLink
    \/ QueueSubdirs
    \/ LoopExit
    \/ Signal
    \/ Return

\* ------------------------------------------------------------------------
\* ChomikujMp3Downloader.run
\* ------------------------------------------------------------------------

\* lines 46-47: where the loop goes with the item it got
AfterGet(d) == IF d = None THEN "stopped" ELSE "do"

\* line 45: the queue once fq.get() has returned its oldest item
AfterPop_Keep(q) == q

AfterPop(q) == Tail(q)

\* lines 45-47: d = self.fq.get(), and the break on None
Get(w) ==
    /\ wpc[w] = "get"
    /\ fq # <<>>
    /\ fq' = AfterPop(fq)
    /\ npop' = npop + 1
    /\ item' = [item EXCEPT ![w] = Head(fq)]
    /\ wpc' = [wpc EXCEPT ![w] = AfterGet(Head(fq))]
    /\ UNCHANGED <<unfinished, put_log, nack, errlog, handed, download_manager>>
    /\ UNCHANGED crawl_vars
    /\ UNCHANGED unit_vars

\* how do(d) ends for its caller: it raises when a decoding raises, and
\* returns otherwise (a failed makedirs or transfer is caught inside do)
DoResult(d) == IF DoDecode(d) = "raise" THEN "raised" ELSE "returned"

\* lines 48-51: where the loop goes when do() has ended
AfterDo_NoCatch(res) == IF res = "raised" THEN "crashed" ELSE "ack"

AfterDo(res) == "ack"

\* lines 48-51: self.do(d) inside try / except Exception
Do(w) ==
    /\ wpc[w] = "do"
    /\ LET res == DoResult(item[w])
           next == AfterDo(res)
       IN /\ wpc' = [wpc EXCEPT ![w] = next]
          /\ errlog' = IF res = "raised" /\ next = "ack"
                       THEN Append(errlog, <<w, item[w]>>)
                       ELSE errlog
    /\ handed' = [handed EXCEPT ![item[w]] = @ + 1]
    /\ UNCHANGED <<item, download_manager>>
    /\ UNCHANGED queue_vars
    /\ UNCHANGED crawl_vars
    /\ UNCHANGED unit_vars

\* line 52: self.fq.task_done(), then the next turn of the loop
TaskDone(w) ==
    /\ wpc[w] = "ack"
    /\ unfinished' = unfinished - 1
    /\ nack' = nack + 1
    /\ wpc' = [wpc EXCEPT ![w] = "get"]
    /\ item' = [item EXCEPT ![w] = None]
    /\ UNCHANGED <<fq, put_log, npop, errlog, handed, download_manager>>
    /\ UNCHANGED crawl_vars
    /\ UNCHANGED unit_vars

Downloader(w) == Get(w) \/ Do(w) \/ TaskDone(w)

Next == Crawler \/ \E w \in Workers : Downloader(w)

Spec == Init /\ [][Next]_vars

\* the process running download() keeps running while it can step
FairCrawler == Spec /\ WF_vars(Crawler)

\* every process that can take a step eventually takes one: the crawler and
\* the downloaders are separate operating-system processes
FairSpec ==
    /\ Spec
    /\ WF_vars(Crawler)
    /\ \A w \in Workers : WF_vars(Downloader(w))

\* ------------------------------------------------------------------------
\* The crawl alone, over a larger service, with the links of every fetched
\* page kept
\* ------------------------------------------------------------------------

\* hrefs of the directories: "/A", "/B", "/C", "/D"
CrawlDirHrefs == {<<ChSlash, 65>>, <<ChSlash, 66>>, <<ChSlash, 67>>, <<ChSlash, 68>>}

\* pages without resource links and with at most MaxFolders folder links
CrawlPages == [audio : {<<>>},
               dirs : UNION {[1..n -> CrawlDirHrefs \cup {NoHref}] : n \in 0..MaxFolders}]

\* the crawl is given its queue, so that no downloader runs
InitCrawl == Init /\ ~download_manager

\* Visit, and the folder hrefs of the page it fetched are kept
VisitLogged ==
    /\ Visit(CrawlPages)
    /\ page_dirs' = IF Len(urls_visited') > Len(urls_visited)
                    THEN Append(page_dirs, IF cpc' = "links" THEN subdirs' ELSE <<>>)
                    ELSE page_dirs

NextCrawl ==
    \/ StartDownloaders
    \/ VisitLogged
    \/ FetchError
    \/ QueueSubdirs
    \/ LoopExit
    \/ Return

SpecCrawl == InitCrawl /\ [][NextCrawl]_vars

\* ------------------------------------------------------------------------
\* The crawl alone, over the two directories, with pages of up to
\* MaxFolders anchors of each kind
\* ------------------------------------------------------------------------

WalkPages == [audio : UNION {[1..n -> ResHrefs] : n \in 0..MaxFolders},
              dirs : UNION {[1..n -> FolderHrefs] : n \in 0..MaxFolders}]

VisitWalk == Visit(WalkPages) /\ UNCHANGED page_dirs

NextWalk ==
    \/ StartDownloaders
    \/ VisitWalk
    \/ FetchError
    \/ EnqueueLink
    \/ QueueSubdirs
    \/ LoopExit
    \/ Return

SpecWalk == InitCrawl /\ [][NextWalk]_vars

\* ------------------------------------------------------------------------
\* The decoder alone
\* ------------------------------------------------------------------------

\* tab, '*', '+', '4', ':', '?', 'a', 'b', 0xA9, 0xC3, U+0100
CodecChars == {9, ChStar, ChPlus, 52, ChColon, ChQuestion, 97, 98, 169, 195, 256}

CodecPaths == UNION {[1..n -> CodecChars] : n \in 0..MaxLen}

InitCodec ==
    /\ path \in CodecPaths
    /\ result = Unset
    /\ call = NoCall
    /\ effects = NoEffects
    /\ InitPipeline

\* result = chomikuj_path_to_utf(path)
Decode ==
    /\ result = Unset
    /\ result' = chomikuj_path_to_utf(path)
    /\ UNCHANGED <<path, download_manager>>
    /\ UNCHANGED do_vars
    /\ UNCHANGED crawl_vars
    /\ UNCHANGED queue_vars
    /\ UNCHANGED worker_vars

NextCodec == Decode

SpecCodec == InitCodec /\ [][NextCodec]_vars

\* ------------------------------------------------------------------------
\* One call of do(), with what it does to the file system, the network and
\* the standard output
\* ------------------------------------------------------------------------

\* '/'.join(p.split('/')[:-1]): p up to its last '/', '' when it has none
SplitDir(p) ==
    CHOOSE r \in {SubSeq(p, 1, k - 1) : k \in {LastIdx(p, ChSlash, Len(p))}} : TRUE

\* os.path.join(a, b) of posixpath
PathJoin(a, b) ==
    IF b # <<>> /\ b[1] = ChSlash THEN b
    ELSE IF a = <<>> \/ a[Len(a)] = ChSlash THEN a \o b
    ELSE a \o <<ChSlash>> \o b

\* 'http://chomikuj.pl/Audio.ashx?id='
AudioUrlHead == Prefix \o <<47, 65, 117, 100, 105, 111, 46, 97, 115, 104, 120, 63,
                            105, 100, 61>>
\* '&type=2&tp=mp3'
AudioUrlTail == <<38, 116, 121, 112, 101, 61, 50, 38, 116, 112, 61, 109, 112, 51>>

\* the Content-Length header of a response: absent, or present with a text
NoHeader == [present |-> FALSE, text |-> <<>>]

RECURSIVE DecVal(_, _, _)
\* the number written by the decimal digits of s from position i on, acc
\* being the number read so far; -1 when s holds another character
DecVal(s, i, acc) ==
    IF i > Len(s) THEN acc
    ELSE IF s[i] \in 48..57 THEN DecVal(s, i + 1, 10 * acc + (s[i] - 48))
    ELSE -1

\* line 81: int(response.getheader("Content-Length", 0)), for a header text
\* of decimal digits or with a character int() rejects; -1 is ValueError
FileSize(header) ==
    IF ~header.present THEN 0
    ELSE IF header.text = <<>> THEN -1
    ELSE DecVal(header.text, 1, 0)

\* line 82: response.read(amt) of http.client, amt >= 0: at most amt bytes
\* of the body, none when amt is 0
ResponseRead(body, amt) ==
    SubSeq(body, 1, IF amt < Len(body) THEN amt ELSE Len(body))

\* a call of do() that left no trace
Quiet == [ended |-> "returned", printed |-> <<>>, made |-> <<>>,
          requested |-> <<>>, written |-> <<>>]

\* lines 77-87: the transfer
Transfer(name, dst_file, download_url, env) ==
    LET size == FileSize(env.header) IN
    IF ~env.open_ok \/ size < 0
    THEN [printed |-> <<<<"Error downloading file", name>>>>,
          requested |-> <<download_url>>, written |-> <<>>]
    ELSE [printed |-> <<<<"Downloaded", name>>>>,
          requested |-> <<download_url>>,
          written |-> <<<<dst_file, ResponseRead(env.body, size)>>>>]

\* lines 62-87, m being the match, and nm and pt the strings the two calls
\* of chomikuj_path_to_utf returned
DoMatched(d, m, nm, pt, env) ==
    LET local_base == d[2]
        download_url == AudioUrlHead \o m.id \o AudioUrlTail
        name == nm \o <<ChDot>> \o m.ext
        dst_dir == PathJoin(local_base, SplitDir(pt))
        dst_file == PathJoin(dst_dir, name)
        t == Transfer(name, dst_file, download_url, env)
    IN
    IF ~env.makedirs_ok
    THEN [ended |-> "returned",
          printed |-> <<<<"Downloading", name>>, <<"Error creating directory", dst_dir>>>>,
          made |-> <<>>, requested |-> <<>>, written |-> <<>>]
    ELSE [ended |-> "returned",
          printed |-> <<<<"Downloading", name>>>> \o t.printed,
          made |-> <<dst_dir>>, requested |-> t.requested, written |-> t.written]

\* do(d) in an environment env: how it ended, the lines it printed, the
\* directories it made, the URLs it requested, the files it wrote
do(d, env) ==
    LET full_url == d[1]
        url_base == d[3]
        m == AudioMatch(full_url)
        kind == DoDecode(d)
    IN
    IF kind = "skip" THEN Quiet
    ELSE IF kind = "raise" THEN [Quiet EXCEPT !.ended = "raised"]
    ELSE DoMatched(d, m, chomikuj_path_to_utf(m.name).val,
                   chomikuj_path_to_utf(Slice(full_url, Len(url_base), Len(full_url))).val,
                   env)

\* "/A/B/x,1.m(audio)": a resource one directory below the starting URL
HrefDeep == <<47, 65, 47, 66, 47, 120, 44, 49, 46, 109>> \o AudioMark

\* the tasks of the crawler, a task below a sub-directory, and a task of
\* another url_type
DoTasks ==
    AllTasks \cup {TaskOf(Prefix \o HrefDeep),
                   <<Prefix \o HrefGood, LocalRoot, StartUrl, "other">>}

\* response bodies: 'A' and 'B' bytes
Bodies == UNION {[1..n -> {65, 66}] : n \in 0..MaxBody}

\* Content-Length: absent, "0" to the digit of MaxBody + 1, and "x"
Headers ==
    {NoHeader} \cup {[present |-> TRUE, text |-> <<48 + n>>] : n \in 0..(MaxBody + 1)}
        \cup {[present |-> TRUE, text |-> <<120>>]}

\* what os.makedirs, opener.open and the server do
Envs == [makedirs_ok : BOOLEAN, open_ok : BOOLEAN, header : Headers, body : Bodies]

InitDo ==
    /\ path = <<>>
    /\ result = Unset
    /\ call \in [d : DoTasks, env : Envs]
    /\ effects = NoEffects
    /\ InitPipeline

\* effects = what self.do(d) did
RunDo ==
    /\ effects = NoEffects
    /\ effects' = do(call.d, call.env)
    /\ UNCHANGED <<call, download_manager>>
    /\ UNCHANGED codec_vars
    /\ UNCHANGED crawl_vars
    /\ UNCHANGED queue_vars
    /\ UNCHANGED worker_vars

NextDo == RunDo

SpecDo == InitDo /\ [][NextDo]_vars

\* ------------------------------------------------------------------------
\* Properties
\* ------------------------------------------------------------------------

\* no element occurs twice in s
NoDup(s) == \A i, j \in 1..Len(s) : s[i] = s[j] => i = j

\* number of positions of s holding x
Count(x, s) == Cardinality({i \in 1..Len(s) : s[i] = x})

AllStopped == \A w \in Workers : wpc[w] = "stopped"

Stopped == {w \in Workers : wpc[w] = "stopped"}

\* downloaders holding an item between get and task_done
Busy == {w \in Workers : wpc[w] \in {"do", "ack"}}

\* C1: a run of download() that owns its queue and is not ended by an
\* exception eventually returns: while it has not returned some process can
\* still step, so the run never ends in a state with download() waiting in
\* fq.join()
C1_DownloadReturns ==
    (download_manager /\ cpc # "raised") => (cpc = "done" \/ ENABLED Next)

\* C2: every item popped is acknowledged by the downloader that popped it,
\* the sentinel included: a stopped downloader holds nothing unacknowledged,
\* so acknowledgements equal pops once all have stopped
C2_EveryPopAcked ==
    /\ npop - nack = Cardinality(Busy)
    /\ AllStopped => nack = npop

\* C4: a downloader whose do() raised still holds the item at task_done
\* (it neither stops nor crashes), task_done acknowledges it, and the
\* downloader goes back to fq.get()
C4_FailureIsolation ==
    /\ [](\A w \in Workers : wpc[w] # "crashed")
    /\ [][\A w \in Workers :
            /\ (wpc[w] = "do" /\ wpc'[w] # "do" /\ DoResult(item[w]) = "raised")
                  => (wpc'[w] = "ack" /\ item'[w] = item[w])
            /\ (wpc[w] = "ack" /\ wpc'[w] # "ack")
                  => (wpc'[w] = "get" /\ nack' = nack + 1
                      /\ unfinished' = unfinished - 1)]_vars

\* a downloader that caught an exception of do() is running do() on a later item
C4_Witness ==
    \E i \in 1..Len(errlog) :
        LET w == errlog[i][1] IN
        /\ wpc[w] = "do"
        /\ item[w] # errlog[i][2]
        /\ nack >= 1

\* C5: no directory URL is fetched twice (each fetch follows the append to
\* urls_visited), and the loop ends with the frontier empty, whatever the
\* pages hold
C5_CrawlVisitsOnce ==
    /\ [](NoDup(urls_visited))
    /\ <>(cpc \in {"signal", "done"} /\ urls_todo = <<>>)

\* C6: no task is put on the queue twice
C6_ResourcePutOnce ==
    \A i, j \in 1..Len(put_log) :
        (put_log[i] = put_log[j] /\ put_log[i] # None) => i = j

\* the one page fetched so far holds a second anchor to a resource that
\* an earlier anchor of the same page has put
C6_Witness ==
    /\ cpc = "links"
    /\ Len(urls_visited) = 1
    /\ links # <<>>
    /\ Count(TaskOf(Prefix \o Head(links)), put_log) = 1

\* C7: every started downloader stops, on its one sentinel, whatever the
\* pages hold: the sentinels put are as many as the downloaders, each
\* sentinel taken stopped one downloader, and none is left when all have
\* stopped
C7_WorkersStop ==
    /\ download_manager => <>AllStopped
    /\ [](AtJoin => Count(None, put_log) = Cardinality(Workers))
    /\ [](Count(None, put_log) - Count(None, fq) = Cardinality(Stopped))
    /\ [](AllStopped => fq = <<>>)

\* C8: do() returns normally for every task a downloader runs it on
C8_DoNeverRaises ==
    \A w \in Workers : wpc[w] = "do" => DoResult(item[w]) = "returned"

\* a '*' is followed by fewer than two characters
StarNearEnd(p) ==
    \E i \in 1..Len(p) : p[i] = ChStar /\ i + 2 > Len(p)

\* C9: the decoder raises for every path in which a '*' is followed by
\* fewer than two characters
C9_TrailingStarFails ==
    (result # Unset /\ StarNearEnd(path)) => result.err # "none"

RECURSIVE WellFormedAt(_, _)
\* from 1-based position i on: every '*' starts an escape of two hexadecimal
\* digits, and every other character has a code point of at most 255
WellFormedAt(p, i) ==
    IF i > Len(p) THEN TRUE
    ELSE IF p[i] = ChStar
         THEN /\ i + 2 <= Len(p)
              /\ HexVal(p[i + 1]) >= 0
              /\ HexVal(p[i + 2]) >= 0
              /\ WellFormedAt(p, i + 3)
         ELSE p[i] <= 255 /\ WellFormedAt(p, i + 1)

RECURSIVE RefBytes(_, _)
\* the reference decoding of a well-formed path, byte by byte
RefBytes(p, i) ==
    IF i > Len(p) THEN <<>>
    ELSE IF p[i] = ChStar
         THEN <<16 * HexVal(p[i + 1]) + HexVal(p[i + 2])>> \o RefBytes(p, i + 3)
    ELSE IF p[i] = ChPlus THEN <<32>> \o RefBytes(p, i + 1)
    ELSE IF p[i] = ChColon THEN <<45>> \o RefBytes(p, i + 1)
    ELSE IF p[i] = ChQuestion THEN <<95>> \o RefBytes(p, i + 1)
    ELSE <<p[i]>> \o RefBytes(p, i + 1)

\* C10: for a well-formed path the decoder gives the UTF-8 decoding of the
\* reference bytes; "a+b", "a:b", "a?b" give "a b", "a-b", "a_b"
C10_ReferenceDecoding ==
    (result # Unset /\ WellFormedAt(path, 1)) =>
        /\ result = Utf8Decode(RefBytes(path, 1))
        /\ path = <<97, 43, 98>> => result = [err |-> "none", val |-> <<97, 32, 98>>]
        /\ path = <<97, 58, 98>> => result = [err |-> "none", val |-> <<97, 45, 98>>]
        /\ path = <<97, 63, 98>> => result = [err |-> "none", val |-> <<97, 95, 98>>]

\* the escape "*4a" was decoded to "J"
C10_Witness ==
    /\ path = <<ChStar, 52, 97>>
    /\ WellFormedAt(path, 1)
    /\ result = [err |-> "none", val |-> <<74>>]

RECURSIVE WideLiteralAt(_, _)
\* from 1-based position i on, some character outside an escape has a code
\* point above 255 (the two characters after a '*' belong to the escape)
WideLiteralAt(p, i) ==
    IF i > Len(p) THEN FALSE
    ELSE IF p[i] = ChStar THEN WideLiteralAt(p, i + 3)
    ELSE p[i] > 255 \/ WideLiteralAt(p, i + 1)

\* C11: the decoder raises for every path holding a literal character whose
\* code point is above 255
C11_WideLiteralFails ==
    (result # Unset /\ WideLiteralAt(path, 1)) => result.err # "none"

\* the links seen so far: <<u, v>> when the fetched page of u held a folder
\* anchor to v
Edges ==
    UNION {{<<urls_visited[i], Prefix \o page_dirs[i][j]>> :
                j \in {k \in 1..Len(page_dirs[i]) : page_dirs[i][k] # NoHref}} :
           i \in 1..Len(page_dirs)}

\* S and what one link of E leads to from S
Succ(S, E) == S \cup {e[2] : e \in {f \in E : f[1] \in S}}

\* no shortest chain of links is longer than this
MaxDist == Cardinality(CrawlDirHrefs)

RECURSIVE WithinUpTo(_, _, _)
\* levels[k + 1] is the set of URLs at most k links of E away from the
\* starting URL, for k from 0 to MaxDist
WithinUpTo(k, levels, E) ==
    IF k > MaxDist THEN levels
    ELSE WithinUpTo(k + 1, Append(levels, Succ(levels[k], E)), E)

Within == CHOOSE l \in {WithinUpTo(1, <<{StartUrl}>>, E) : E \in {Edges}} : TRUE

\* the shortest link distance of u from the starting URL, W being Within
DistIn(u, W) == CHOOSE k \in 0..MaxDist :
                    u \in W[k + 1] /\ \A j \in 0..(k - 1) : u \notin W[j + 1]

Dist(u) == DistIn(u, Within)

\* D maps every URL reached by links to its distance: when a URL at distance
\* k + 1 is fetched, every URL known at distance k has been fetched before it
BreadthFirstIn(D) ==
    \A j \in 1..Len(page_dirs) : \A v \in DOMAIN D :
        D[v] + 1 = D[urls_visited[j]]
            => \E i \in 1..(j - 1) : urls_visited[i] = v

\* C12: breadth-first order: every URL whose shortest link distance from the
\* starting URL is k is fetched before any URL whose shortest distance is
\* k + 1
C12_BreadthFirst ==
    /\ Len(page_dirs) <= Len(urls_visited)
    /\ \A D \in {[u \in W[MaxDist + 1] |-> DistIn(u, W)] : W \in {Within}} :
          BreadthFirstIn(D)

\* the page of the first URL at distance 1 led to a URL at distance 2, which
\* was fetched after the second URL at distance 1
C12_Witness ==
    /\ Len(page_dirs) = 4
    /\ Dist(urls_visited[2]) = 1
    /\ Dist(urls_visited[3]) = 1
    /\ Dist(urls_visited[4]) = 2
    /\ <<urls_visited[2], urls_visited[4]>> \in Edges

\* the tasks do() has been called on
Handed == {t \in AllTasks : handed[t] >= 1}

\* C13: do() is called at most once on every task, no two downloaders hold
\* the same task, do() is called only on tasks that were put, and when all
\* downloaders have stopped do() has been called once on every task put
C13_HandedOnce ==
    /\ \A t \in AllTasks : handed[t] <= 1
    /\ \A v, w \in Workers : (v # w /\ item[v] # None) => item[v] # item[w]
    /\ \A t \in Handed : InSeq(t, put_log)
    /\ AllStopped =>
          \A i \in 1..Len(put_log) : put_log[i] # None => handed[put_log[i]] = 1

\* all downloaders have stopped and do() was called on two tasks
C13_Witness == AllStopped /\ Cardinality(Handed) = 2

\* C14: a crawl that owns its queue has started every downloader before it
\* fetches its first page
C14_StartedBeforeFetch ==
    (download_manager /\ (cpc # "start" \/ urls_visited # <<>>))
        => \A w \in Workers : wpc[w] # "new"

\* a downloader has acknowledged a task, do() having returned or raised,
\* while the crawl loop runs with URLs left in the frontier
C14_Witness ==
    /\ download_manager
    /\ cpc \in {"loop", "links", "except"}
    /\ urls_todo # <<>>
    /\ nack >= 1
    /\ Handed # {}

\* s is the start of t
IsPrefix(s, t) == Len(s) <= Len(t) /\ \A i \in 1..Len(s) : s[i] = t[i]

\* C15: a failed fetch takes the URL from the frontier into urls_visited and
\* changes nothing else; its handler can always run and goes back to the
\* loop, leaving the frontier, the tasks put and urls_downloaded as they
\* are; urls_visited only grows and holds no URL twice, and a URL popped
\* while it is in urls_visited is dropped without a fetch
C15_FetchFailureIsolated ==
    /\ [][/\ (cpc = "loop" /\ cpc' = "except") =>
                /\ urls_visited' = Append(urls_visited, Head(urls_todo))
                /\ urls_todo' = Tail(urls_todo)
                /\ put_log' = put_log /\ fq' = fq
                /\ urls_downloaded' = urls_downloaded
          /\ (cpc = "except" /\ cpc' # "except") =>
                /\ cpc' = "loop"
                /\ urls_todo' = urls_todo
                /\ urls_visited' = urls_visited
                /\ put_log' = put_log /\ fq' = fq
                /\ urls_downloaded' = urls_downloaded
          /\ (cpc = "loop" /\ urls_todo # <<>> /\ urls_todo' # urls_todo
                /\ InSeq(Head(urls_todo), urls_visited)) =>
                /\ cpc' = "loop"
                /\ urls_todo' = Tail(urls_todo)
                /\ urls_visited' = urls_visited
                /\ put_log' = put_log
          /\ IsPrefix(urls_visited, urls_visited')]_vars
    /\ [](cpc = "except" => ENABLED FetchError)
    /\ [](\A i, j \in 1..Len(urls_visited) :
            urls_visited[i] = urls_visited[j] => i = j)

\* the fetch of the second page has failed while the frontier still holds
\* an entry that the first page gave, the failed URL once more, and the
\* first page has put two tasks that wait in the queue
C15_Witness ==
    /\ cpc = "except"
    /\ Len(urls_visited) = 2
    /\ urls_todo = <<urls_visited[2]>>
    /\ Len(put_log) = 2
    /\ fq = put_log

\* C16: a call of do() on a task whose URL does not match prints a line
\* about it and returns, having made no directory, requested nothing and
\* written no file
C16_NoMatchLogged ==
    (effects # NoEffects /\ call.d[4] = ChomikujAudio /\ ~AudioMatch(call.d[1]).ok)
        => /\ effects.ended = "returned"
           /\ effects.printed # <<>>
           /\ effects.made = <<>>
           /\ effects.requested = <<>>
           /\ effects.written = <<>>

\* C17: the file written holds the whole body when the response has no
\* Content-Length or one of zero, and otherwise the first Content-Length
\* bytes of the body, or all of a shorter body
C17_ContentLengthRead ==
    (effects # NoEffects /\ effects.written # <<>>) =>
        LET data == effects.written[1][2]
            body == call.env.body
            size == FileSize(call.env.header)
        IN IF size = 0 THEN data = body
           ELSE /\ Len(data) <= size
                /\ Len(data) <= Len(body)
                /\ data = SubSeq(body, 1, Len(data))

\* only sentinels are left in the queue
OnlySentinels(q) == \A i \in 1..Len(q) : q[i] = None

\* C18: a downloader takes a sentinel only when the crawl loop has ended and
\* no task is left in the queue; while some downloader has stopped no task
\* waits in the queue; and no task is put after a sentinel
C18_SentinelsLast ==
    /\ [][\A w \in Workers :
            (wpc[w] = "get" /\ wpc'[w] = "stopped")
                => /\ cpc \in {"signal", "done"}
                   /\ OnlySentinels(fq)
                   /\ \A i \in 1..Len(put_log) :
                         put_log[i] # None => i <= npop]_vars
    /\ [](Stopped # {} => OnlySentinels(fq))
    /\ [](\A i, j \in 1..Len(put_log) :
            (i < j /\ put_log[i] = None) => put_log[j] = None)

\* a downloader has stopped on its sentinel while another is still running
\* do() on a task and sentinels wait in the queue
C18_Witness ==
    /\ Stopped # {}
    /\ \E w \in Workers : wpc[w] = "do"
    /\ fq # <<>>
    /\ Cardinality(Handed) >= 1

\* C19: a crawl that was given its queue starts no downloader and puts no
\* sentinel; once its loop has ended it can only return, and it can do so
\* whatever the number of items not yet acknowledged
C19_GivenQueue ==
    ~download_manager =>
        /\ \A w \in Workers : wpc[w] = "new"
        /\ ~InSeq(None, put_log)
        /\ signalled = 0
        /\ cpc = "signal" => (ENABLED Return /\ ~ENABLED Signal)

\* download() has returned, not owning the queue, with tasks it put
\* unacknowledged
C19_Witness ==
    /\ ~download_manager
    /\ cpc = "done"
    /\ unfinished > 0
    /\ unfinished = Len(put_log)

====
